---- MODULE Spec2Model ----
(***************************************************************************)
(* A model of prc.api-py's caching layer (prc/utility/cache.py: Cache and  *)
(* KeylessCache) and of the fetch operations of prc/server.py that write   *)
(* into those caches.                                                      *)
(*                                                                         *)
(* A cache object is a record; every method is an operator that takes the  *)
(* object (and the value of time() read at the top of the method) and      *)
(* gives [self |-> the object afterwards, ret |-> what the method          *)
(* returns].  Optional values are sequences of length at most one: None is *)
(* <<>>, a value v is <<v>>.  An Optional[int] ttl is a set: None is {},   *)
(* T is {T}.                                                               *)
(***************************************************************************)
EXTENDS Integers, Sequences, FiniteSets, TLC

(***************************************************************************)
(* Bounds of the model.                                                    *)
(***************************************************************************)
\* time() takes the values 0 .. MaxTime
MaxTime == 2
\* caches are constructed with max_size in 1 .. MaxCap
MaxCap == 2

\* the ttl a cache is constructed with: 0 (no expiry) or one second
TtlChoices == {0, 1}

Times == 0 .. MaxTime

(***************************************************************************)
(* Values.  A stored value is an object with its own __eq__ (Player:       *)
(* same id; LogEntry: same created_at; Vehicle: same name and owner), so   *)
(* two values can be equal without being the same object.  A value is a    *)
(* record: id decides equality, key is what a sort key function reads.     *)
(***************************************************************************)
Val(i, k) == [id |-> i, key |-> k]

ValEq(a, b) == a.id = b.id

\* values for the unkeyed cache: Val(2, 1) and Val(2, 3) are equal and not
\* the same object, Val(3, 3) and Val(2, 3) are unequal with one sort key
Values == {Val(1, 5), Val(2, 1), Val(3, 3), Val(2, 3)}

\* values for the keyed cache
KValues == {Val(1, 5), Val(1, 1), Val(2, 1)}

Keys == {"A", "B", "C"}

(***************************************************************************)
(* Helpers for dict, OrderedDict and deque.                                *)
(***************************************************************************)
EmptyDict == [k \in {} |-> 0]

\* dict.pop(key, None) / del d[key]
DictPop(d, key) == [k \in (DOMAIN d) \ {key} |-> d[k]]

\* d[key] = x
DictPut(d, key, x) == [k \in (DOMAIN d) \cup {key} |-> IF k = key THEN x ELSE d[k]]

\* dict.get(key, default)
DictGet(d, key, default) == IF key \in DOMAIN d THEN d[key] ELSE default

\* the set of the elements of a sequence
Range(s) == {s[i] : i \in DOMAIN s}

\* the sequence without position i
RemoveAt(s, i) == [j \in 1 .. (Len(s) - 1) |-> IF j < i THEN s[j] ELSE s[j + 1]]

\* the keys of an OrderedDict, in order
OrderedKeys(od) == [i \in DOMAIN od |-> od[i].key]

KeySet(od) == {od[i].key : i \in DOMAIN od}

\* OrderedDict[key]
Lookup(od, key) == (CHOOSE i \in DOMAIN od : od[i].key = key)

(***************************************************************************)
(* class Cache                                                             *)
(***************************************************************************)
\* a variant of __init__ that keeps a ttl of 0 as a TTL of 0 seconds
Cache_init_keeps_zero(max_size, ttl, unique) ==
    [max_size |-> max_size,
     ttl |-> {ttl},
     unique |-> unique,
     cache |-> <<>>,
     timestamps |-> EmptyDict]

Cache_init(max_size, ttl, unique) ==
    [max_size |-> max_size,
     ttl |-> IF ttl = 0 THEN {} ELSE {ttl},
     unique |-> unique,
     cache |-> <<>>,
     timestamps |-> EmptyDict]

\* a variant of _is_expired that subtracts the wrong way round
Cache_is_expired_reversed(self, key, now) ==
    IF self.ttl = {} THEN FALSE
    ELSE \E ttl \in self.ttl : DictGet(self.timestamps, key, 0) - now > ttl

\* a variant of _is_expired that takes an age of exactly the TTL for expired
Cache_is_expired_inclusive(self, key, now) ==
    IF self.ttl = {} THEN FALSE
    ELSE \E ttl \in self.ttl : now - DictGet(self.timestamps, key, 0) >= ttl

Cache_is_expired(self, key, now) ==
    IF self.ttl = {} THEN FALSE
    ELSE \E ttl \in self.ttl : now - DictGet(self.timestamps, key, 0) > ttl

\* a variant of _delete_oversize that pops the newest entry (popitem())
RECURSIVE Cache_delete_oversize_newest(_)
Cache_delete_oversize_newest(self) ==
    IF Len(self.cache) > self.max_size
    THEN Cache_delete_oversize_newest(
             [self EXCEPT !.cache = SubSeq(@, 1, Len(@) - 1),
                          !.timestamps = DictPop(@, self.cache[Len(self.cache)].key)])
    ELSE self

\* a variant of _delete_oversize that stops one entry too early
RECURSIVE Cache_delete_oversize_late(_)
Cache_delete_oversize_late(self) ==
    IF Len(self.cache) > self.max_size + 1
    THEN Cache_delete_oversize_late(
             [self EXCEPT !.cache = Tail(@),
                          !.timestamps = DictPop(@, Head(self.cache).key)])
    ELSE self

\* popitem(last=False) on an empty OrderedDict raises KeyError: the loop of
\* _delete_oversize ends there, with nothing left
RECURSIVE Cache_delete_oversize(_)
Cache_delete_oversize(self) ==
    IF Len(self.cache) > self.max_size /\ Len(self.cache) > 0
    THEN Cache_delete_oversize(
             [self EXCEPT !.cache = Tail(@),
                          !.timestamps = DictPop(@, Head(self.cache).key)])
    ELSE self

\* _delete_oversize raises: its loop comes to pop from the empty OrderedDict
RECURSIVE Cache_delete_oversize_raises(_)
Cache_delete_oversize_raises(self) ==
    IF Len(self.cache) > self.max_size
    THEN IF Len(self.cache) = 0
         THEN TRUE
         ELSE Cache_delete_oversize_raises([self EXCEPT !.cache = Tail(@)])
    ELSE FALSE

\* a variant of set whose uniqueness pass compares objects by identity
Cache_set_store_identity(self, key, value, now) ==
    LET kept == IF self.unique
                THEN SelectSeq(self.cache,
                               LAMBDA e : ~(e.value = value /\ e.key # key))
                ELSE self.cache
        gone == KeySet(self.cache) \ KeySet(kept)
        stamps == [k \in (DOMAIN self.timestamps) \ gone |-> self.timestamps[k]]
        moved == SelectSeq(kept, LAMBDA e : e.key # key)
    IN  [self EXCEPT !.cache = Append(moved, [key |-> key, value |-> value]),
                     !.timestamps = DictPut(stamps, key, now)]

\* Cache.set up to the size check: the uniqueness pass, the move to the
\* end, the assignment and the timestamp
\* a variant of the store that overwrites a key it has where the key stands
Cache_set_store_in_place(self, key, value, now) ==
    LET kept == IF self.unique
                THEN SelectSeq(self.cache,
                            LAMBDA e : ~(ValEq(e.value, value) /\ e.key # key))
                ELSE self.cache
        gone == KeySet(self.cache) \ KeySet(kept)
        stamps == [k \in (DOMAIN self.timestamps) \ gone |-> self.timestamps[k]]
        entry == [key |-> key, value |-> value]
    IN  [self EXCEPT !.cache = IF key \in KeySet(kept)
                               THEN [i \in DOMAIN kept |->
                                        IF kept[i].key = key THEN entry ELSE kept[i]]
                               ELSE Append(kept, entry),
                     !.timestamps = DictPut(stamps, key, now)]

Cache_set_store(self, key, value, now) ==
    LET kept == IF self.unique
                THEN SelectSeq(self.cache,
                            LAMBDA e : ~(ValEq(e.value, value) /\ e.key # key))
                ELSE self.cache
        gone == KeySet(self.cache) \ KeySet(kept)
        stamps == [k \in (DOMAIN self.timestamps) \ gone |-> self.timestamps[k]]
        moved == SelectSeq(kept, LAMBDA e : e.key # key)
    IN  [self EXCEPT !.cache = Append(moved, [key |-> key, value |-> value]),
                     !.timestamps = DictPut(stamps, key, now)]

Cache_set(self, key, value, now) ==
    LET stored == Cache_set_store(self, key, value, now)
    IN  [self |-> IF Len(stored.cache) > stored.max_size
                  THEN Cache_delete_oversize(stored)
                  ELSE stored,
         ret |-> <<value>>,
         raised |-> /\ Len(stored.cache) > stored.max_size
                    /\ Cache_delete_oversize_raises(stored)]

Cache_delete(self, key) ==
    [self |-> [self EXCEPT !.cache = SelectSeq(@, LAMBDA e : e.key # key),
                           !.timestamps = DictPop(@, key)],
     ret |-> <<>>]

\* a variant of get that moves the key to the end and keeps its timestamp
Cache_get_no_stamp(self, key, now) ==
    IF key \in KeySet(self.cache)
    THEN IF ~Cache_is_expired(self, key, now)
         THEN LET e == self.cache[Lookup(self.cache, key)]
              IN  [self |-> [self EXCEPT
                                !.cache = Append(SelectSeq(@, LAMBDA x : x.key # key), e)],
                   ret |-> <<e.value>>]
         ELSE [self |-> Cache_delete(self, key).self, ret |-> <<>>]
    ELSE [self |-> self, ret |-> <<>>]

\* a variant of get that refreshes the timestamp and leaves the order alone
Cache_get_no_move(self, key, now) ==
    IF key \in KeySet(self.cache)
    THEN IF ~Cache_is_expired(self, key, now)
         THEN [self |-> [self EXCEPT !.timestamps = DictPut(@, key, now)],
               ret |-> <<self.cache[Lookup(self.cache, key)].value>>]
         ELSE [self |-> Cache_delete(self, key).self, ret |-> <<>>]
    ELSE [self |-> self, ret |-> <<>>]

Cache_get(self, key, now) ==
    IF key \in KeySet(self.cache)
    THEN IF ~Cache_is_expired(self, key, now)
         THEN LET e == self.cache[Lookup(self.cache, key)]
              IN  [self |-> [self EXCEPT
                                !.cache = Append(SelectSeq(@, LAMBDA x : x.key # key), e),
                                !.timestamps = DictPut(@, key, now)],
                   ret |-> <<e.value>>]
         ELSE [self |-> Cache_delete(self, key).self, ret |-> <<>>]
    ELSE [self |-> self, ret |-> <<>>]

\* a variant of clear that empties the entries and keeps the timestamps
Cache_clear_keeps_timestamps(self) ==
    [self |-> [self EXCEPT !.cache = <<>>], ret |-> <<>>]

Cache_clear(self) ==
    [self |-> [self EXCEPT !.cache = <<>>, !.timestamps = EmptyDict],
     ret |-> <<>>]

\* a variant of items that returns the entries without purging
Cache_items_no_purge(self, now) ==
    [self |-> self, ret |-> self.cache]

Cache_items(self, now) ==
    LET expired == {k \in KeySet(self.cache) : Cache_is_expired(self, k, now)}
        purged == [self EXCEPT
                      !.cache = SelectSeq(@, LAMBDA e : e.key \notin expired),
                      !.timestamps = [k \in (DOMAIN @) \ expired |-> @[k]]]
    IN  [self |-> purged, ret |-> purged.cache]

Cache_len(self) == Len(self.cache)

\* a variant of the membership test that does not look at the age
Cache_contains_any_age(self, key, now) ==
    key \in KeySet(self.cache)

Cache_contains(self, key, now) ==
    key \in KeySet(self.cache) /\ ~Cache_is_expired(self, key, now)


(***************************************************************************)
(* class KeylessCache                                                      *)
(*                                                                         *)
(* _cache and _timestamps are deques, modelled as sequences; an index is a *)
(* Python index: 0 is the first position, -1 the last.                     *)
(***************************************************************************)
\* the position (1 ..) that Python index `index` addresses in s
Pos(s, index) == IF index < 0 THEN Len(s) + index + 1 ELSE index + 1

\* a variant of the membership test that finds only the very same object
SetHas_identity(set, value) == value \in set

\* value in self._set
SetHas(set, value) == \E x \in set : ValEq(x, value)

\* self._set.discard(value)
SetDiscard(set, value) == {x \in set : ~ValEq(x, value)}

\* self._set.add(value)
SetAdd(set, value) == IF SetHas(set, value) THEN set ELSE set \cup {value}

\* a variant of the comparison that drops the reverse flag
SortsBefore_ascending(a, b, reverse) == a[1].key < b[1].key

\* whether a sorts strictly before b: the key function reads the key field
SortsBefore(a, b, reverse) ==
    IF reverse THEN a[1].key > b[1].key ELSE a[1].key < b[1].key

\* a variant of the insertion that puts x in front of the elements with an
\* equal key: an unstable sort
InsertSorted_ties_first(sorted, x, reverse) ==
    LET behind == {i \in DOMAIN sorted : ~SortsBefore(sorted[i], x, reverse)}
        at == IF behind = {} THEN Len(sorted) + 1
              ELSE CHOOSE i \in behind : \A j \in behind : i <= j
    IN  SubSeq(sorted, 1, at - 1) \o <<x>> \o SubSeq(sorted, at, Len(sorted))

\* list.sort is stable, with and without reverse: x goes behind every
\* element it does not sort strictly before
InsertSorted(sorted, x, reverse) ==
    LET behind == {i \in DOMAIN sorted : SortsBefore(x, sorted[i], reverse)}
        at == IF behind = {} THEN Len(sorted) + 1
              ELSE CHOOSE i \in behind : \A j \in behind : i <= j
    IN  SubSeq(sorted, 1, at - 1) \o <<x>> \o SubSeq(sorted, at, Len(sorted))

RECURSIVE ListSort(_, _)
ListSort(combined, reverse) ==
    IF combined = <<>> THEN <<>>
    ELSE InsertSorted(ListSort(SubSeq(combined, 1, Len(combined) - 1), reverse),
                      combined[Len(combined)], reverse)

KeylessCache_init(max_size, ttl, sort) ==
    [max_size |-> max_size,
     ttl |-> IF ttl = 0 THEN {} ELSE {ttl},
     sort |-> sort,
     cache |-> <<>>,
     timestamps |-> <<>>,
     set |-> {}]

KeylessCache_is_expired(self, index, now) ==
    IF self.ttl = {} THEN FALSE
    ELSE \E ttl \in self.ttl : now - self.timestamps[Pos(self.timestamps, index)] > ttl

\* popleft() on an empty deque raises IndexError: the loop of
\* _delete_oversize ends there, with nothing left
RECURSIVE KeylessCache_delete_oversize_raises(_)
KeylessCache_delete_oversize_raises(self) ==
    IF Len(self.cache) > self.max_size
    THEN IF Len(self.cache) = 0
         THEN TRUE
         ELSE KeylessCache_delete_oversize_raises([self EXCEPT !.cache = Tail(@)])
    ELSE FALSE

\* a variant of _delete_oversize that removes the entry with the oldest
\* timestamp
RECURSIVE KeylessCache_delete_oversize_oldest(_)
KeylessCache_delete_oversize_oldest(self) ==
    IF Len(self.cache) > self.max_size /\ Len(self.cache) > 0
    THEN LET at == CHOOSE i \in DOMAIN self.cache :
                       /\ \A j \in DOMAIN self.cache :
                              self.timestamps[i] <= self.timestamps[j]
                       /\ \A j \in 1 .. (i - 1) :
                              self.timestamps[j] > self.timestamps[i]
         IN  KeylessCache_delete_oversize_oldest(
                 [self EXCEPT !.cache = RemoveAt(@, at),
                              !.timestamps = RemoveAt(@, at),
                              !.set = SetDiscard(@, self.cache[at])])
    ELSE self

\* a variant of _delete_oversize that pops from the right end
RECURSIVE KeylessCache_delete_oversize_right(_)
KeylessCache_delete_oversize_right(self) ==
    IF Len(self.cache) > self.max_size /\ Len(self.cache) > 0
    THEN KeylessCache_delete_oversize_right(
             [self EXCEPT !.cache = SubSeq(@, 1, Len(@) - 1),
                          !.timestamps = SubSeq(@, 1, Len(@) - 1),
                          !.set = SetDiscard(@, self.cache[Len(self.cache)])])
    ELSE self

RECURSIVE KeylessCache_delete_oversize(_)
KeylessCache_delete_oversize(self) ==
    IF Len(self.cache) > self.max_size /\ Len(self.cache) > 0
    THEN KeylessCache_delete_oversize(
             [self EXCEPT !.cache = Tail(@),
                          !.timestamps = Tail(@),
                          !.set = SetDiscard(@, Head(self.cache))])
    ELSE self

\* a variant of _sort_cache that reorders the values and not the timestamps
KeylessCache_sort_cache_values(self) ==
    IF self.sort # <<>> /\ self.cache # <<>>
    THEN LET combined == [i \in DOMAIN self.cache |->
                              <<self.cache[i], self.timestamps[i]>>]
             sorted == ListSort(combined, self.sort[1])
         IN  [self EXCEPT !.cache = [i \in DOMAIN sorted |-> sorted[i][1]]]
    ELSE self

KeylessCache_sort_cache(self) ==
    IF self.sort # <<>> /\ self.cache # <<>>
    THEN LET combined == [i \in DOMAIN self.cache |->
                              <<self.cache[i], self.timestamps[i]>>]
             sorted == ListSort(combined, self.sort[1])
         IN  [self EXCEPT !.cache = [i \in DOMAIN sorted |-> sorted[i][1]],
                          !.timestamps = [i \in DOMAIN sorted |-> sorted[i][2]]]
    ELSE self

\* a variant of add that moves a re-added value to the end, as Cache.set
\* does with a key
KeylessCache_add_move_to_end(self, value, now) ==
    LET added ==
            IF SetHas(self.set, value)
            THEN LET idx == CHOOSE i \in DOMAIN self.cache :
                                /\ ValEq(self.cache[i], value)
                                /\ \A j \in 1 .. (i - 1) : ~ValEq(self.cache[j], value)
                 IN  [self EXCEPT !.cache = Append(RemoveAt(@, idx), self.cache[idx]),
                                  !.timestamps = Append(RemoveAt(@, idx), now)]
            ELSE LET room == IF Len(self.cache) >= self.max_size
                             THEN KeylessCache_delete_oversize(self)
                             ELSE self
                 IN  [room EXCEPT !.cache = Append(@, value),
                                  !.timestamps = Append(@, now),
                                  !.set = SetAdd(@, value)]
    IN  [self |-> KeylessCache_sort_cache(added), ret |-> <<value>>,
         raised |-> FALSE]

\* a variant of add that, for a value it holds, refreshes the timestamp at
\* the front instead of the one at the value's position
KeylessCache_add_stamps_front(self, value, now) ==
    LET raised == /\ ~SetHas(self.set, value)
                  /\ Len(self.cache) >= self.max_size
                  /\ KeylessCache_delete_oversize_raises(self)
        added ==
            IF SetHas(self.set, value)
            THEN [self EXCEPT !.timestamps[1] = now]
            ELSE LET room == IF Len(self.cache) >= self.max_size
                             THEN KeylessCache_delete_oversize(self)
                             ELSE self
                 IN  [room EXCEPT !.cache = Append(@, value),
                                  !.timestamps = Append(@, now),
                                  !.set = SetAdd(@, value)]
    IN  IF raised
        THEN [self |-> KeylessCache_delete_oversize(self), ret |-> <<>>,
              raised |-> TRUE]
        ELSE [self |-> KeylessCache_sort_cache(added), ret |-> <<value>>,
              raised |-> FALSE]

KeylessCache_add(self, value, now) ==
    LET raised == /\ ~SetHas(self.set, value)
                  /\ Len(self.cache) >= self.max_size
                  /\ KeylessCache_delete_oversize_raises(self)
        added ==
            IF SetHas(self.set, value)
            THEN LET idx == CHOOSE i \in DOMAIN self.cache :
                                /\ ValEq(self.cache[i], value)
                                /\ \A j \in 1 .. (i - 1) : ~ValEq(self.cache[j], value)
                 IN  [self EXCEPT !.timestamps[idx] = now]
            ELSE LET room == IF Len(self.cache) >= self.max_size
                             THEN KeylessCache_delete_oversize(self)
                             ELSE self
                 IN  [room EXCEPT !.cache = Append(@, value),
                                  !.timestamps = Append(@, now),
                                  !.set = SetAdd(@, value)]
    IN  IF raised
        THEN [self |-> KeylessCache_delete_oversize(self), ret |-> <<>>,
              raised |-> TRUE]
        ELSE [self |-> KeylessCache_sort_cache(added), ret |-> <<value>>,
              raised |-> FALSE]

\* a variant of remove that takes an index out of range for the nearest end
KeylessCache_remove_clamped(self, index) ==
    IF Len(self.cache) > 0
    THEN LET p == Pos(self.cache, index)
             at == IF p < 1 THEN 1 ELSE IF p > Len(self.cache) THEN Len(self.cache) ELSE p
         IN  [self |-> [self EXCEPT !.cache = RemoveAt(@, at),
                                    !.timestamps = RemoveAt(@, at),
                                    !.set = SetDiscard(@, self.cache[at])],
              ret |-> <<>>]
    ELSE [self |-> self, ret |-> <<>>]

KeylessCache_remove(self, index) ==
    IF -Len(self.cache) <= index /\ index < Len(self.cache)
    THEN LET at == Pos(self.cache, index)
         IN  [self |-> [self EXCEPT !.cache = RemoveAt(@, at),
                                    !.timestamps = RemoveAt(@, at),
                                    !.set = SetDiscard(@, self.cache[at])],
              ret |-> <<>>]
    ELSE [self |-> self, ret |-> <<>>]

\* a variant of get that stamps the entry it returns, as Cache.get does
KeylessCache_get_touch(self, index, now) ==
    IF -Len(self.cache) <= index /\ index < Len(self.cache)
    THEN IF ~KeylessCache_is_expired(self, index, now)
         THEN [self |-> [self EXCEPT !.timestamps[Pos(self.cache, index)] = now],
               ret |-> <<self.cache[Pos(self.cache, index)]>>]
         ELSE LET value == self.cache[Pos(self.cache, index)]
                  removed == KeylessCache_remove(self, index).self
              IN  [self |-> [removed EXCEPT !.set = SetDiscard(@, value)],
                   ret |-> <<>>]
    ELSE [self |-> self, ret |-> <<>>]

KeylessCache_get(self, index, now) ==
    IF -Len(self.cache) <= index /\ index < Len(self.cache)
    THEN IF ~KeylessCache_is_expired(self, index, now)
         THEN [self |-> self, ret |-> <<self.cache[Pos(self.cache, index)]>>]
         ELSE LET value == self.cache[Pos(self.cache, index)]
                  removed == KeylessCache_remove(self, index).self
              IN  [self |-> [removed EXCEPT !.set = SetDiscard(@, value)],
                   ret |-> <<>>]
    ELSE [self |-> self, ret |-> <<>>]

KeylessCache_clear(self) ==
    [self |-> [self EXCEPT !.cache = <<>>, !.timestamps = <<>>, !.set = {}],
     ret |-> <<>>]

\* a variant of the loop of items() that removes from the first index up,
\* so that every removal shifts the indices still to come
RECURSIVE KeylessCache_items_purge_forward(_, _)
KeylessCache_items_purge_forward(self, indices_to_remove) ==
    IF indices_to_remove = <<>> THEN self
    ELSE KeylessCache_items_purge_forward(
             KeylessCache_remove(self, Head(indices_to_remove)).self,
             Tail(indices_to_remove))

\* the loop of items(): the indices to remove, taken from the last one down
RECURSIVE KeylessCache_items_purge(_, _)
KeylessCache_items_purge(self, indices_to_remove) ==
    IF indices_to_remove = <<>> THEN self
    ELSE LET i == indices_to_remove[Len(indices_to_remove)]
             value == self.cache[Pos(self.cache, i)]
             removed == KeylessCache_remove(self, i).self
         IN  KeylessCache_items_purge(
                 [removed EXCEPT !.set = SetDiscard(@, value)],
                 SubSeq(indices_to_remove, 1, Len(indices_to_remove) - 1))

KeylessCache_items(self, now) ==
    LET indices_to_remove ==
            SelectSeq([i \in 1 .. Len(self.cache) |-> i - 1],
                      LAMBDA i : KeylessCache_is_expired(self, i, now))
        purged == KeylessCache_items_purge(self, indices_to_remove)
    IN  [self |-> purged, ret |-> purged.cache]

KeylessCache_len(self) == Len(self.cache)

KeylessCache_contains(self, value, now) ==
    /\ SetHas(self.set, value)
    /\ \E idx \in DOMAIN self.cache :
           /\ ValEq(self.cache[idx], value)
           /\ \A j \in 1 .. (idx - 1) : ~ValEq(self.cache[j], value)
           /\ ~KeylessCache_is_expired(self, idx - 1, now)

(***************************************************************************)
(* The client, its server handle and the fetch methods of prc/server.py.   *)
(***************************************************************************)
\* GlobalCache's default (max_size, TTL) of servers and players
GlobalServersSize == 3
GlobalPlayersSize == 100
GlobalJoinCodesSize == 3
\* ServerCache's default (max_size, TTL) of players and bans
ServerPlayersSize == 50
ServerBansSize == 500

\* the ephemeral_ttl a Server is constructed with (5 is the default)
EphemeralTtlChoices == {1, 5}

Tasks == {1, 2}

\* the fetch methods modelled, both wrapped by _refresh_server and _ephemeral
Methods == {"get_players", "get_bans"}

\* server._id and the Server object itself
ServerId == "srv"
ServerObject == [id |-> "srv", key |-> 0]

\* one element of a response: a player, with the id as the API sent it
\* (digits or not)
PlayerData(id, digits) == [id |-> id, digits |-> digits]

\* what the HTTP layer can hand back: an error code, or a decoded list
Responses ==
    {[ok |-> FALSE, data |-> <<>>],
     [ok |-> TRUE, data |-> <<PlayerData(1, TRUE)>>],
     [ok |-> TRUE, data |-> <<PlayerData(1, TRUE), PlayerData(2, TRUE)>>],
     [ok |-> TRUE, data |-> <<PlayerData(2, TRUE), PlayerData(1, FALSE)>>]}

GlobalCache_init ==
    [servers |-> Cache_init(GlobalServersSize, 0, TRUE),
     join_codes |-> Cache_init(GlobalJoinCodesSize, 0, TRUE),
     players |-> Cache_init(GlobalPlayersSize, 0, TRUE)]

\* PRC.__init__: None is <<>>; _key_requests is made only with a global key
PRC_init(global_key) ==
    [global_key |-> global_key,
     key_requests |-> global_key # <<>>,
     invalid_keys |-> {},
     reset |-> "idle"]

\* what POST /api-key/reset answers: the new key, 403, or another failure
ResetResponses ==
    {[ok |-> TRUE, new |-> "key1", status_code |-> 200],
     [ok |-> TRUE, new |-> "key2", status_code |-> 200],
     [ok |-> FALSE, new |-> "", status_code |-> 403],
     [ok |-> FALSE, new |-> "", status_code |-> 500]}

\* reset_key up to its await: ValueError without a global key
PRC_reset_key_enter(client) ==
    IF ~client.key_requests \/ client.global_key = <<>>
    THEN [client EXCEPT !.reset = "raised"]
    ELSE [client EXCEPT !.reset = "awaiting"]

\* reset_key from the response on: [global_cache, client]
PRC_reset_key_resume(gc, client, response) ==
    IF response.ok
    THEN [global_cache |-> [gc EXCEPT !.servers = Cache_clear(@).self,
                                      !.players = Cache_clear(@).self],
          client |-> [client EXCEPT !.global_key = <<response.new>>,
                                    !.reset = "returned"]]
    ELSE IF response.status_code = 403
         THEN [global_cache |-> gc,
               client |-> [client EXCEPT !.invalid_keys = @ \cup {client.global_key[1]},
                                         !.reset = "raised"]]
         ELSE [global_cache |-> gc,
               client |-> [client EXCEPT !.reset = "raised"]]

ServerCache_init ==
    [players |-> Cache_init(ServerPlayersSize, 0, TRUE),
     bans |-> Cache_init(ServerBansSize, 0, TRUE)]

Server_init(ephemeral_ttl) ==
    [ephemeral_ttl |-> ephemeral_ttl,
     ephemeral |-> [m \in Methods |-> <<>>]]

\* What a fetch works on: the caches and the Server object, whether an
\* exception is propagating, the list built so far, and the number of writes
\* made.
World(gc, sc, srv) ==
    [global_cache |-> gc, server_cache |-> sc, server |-> srv,
     raised |-> FALSE, result |-> <<>>, writes |-> 0]

\* Player.__init__: self is the object under construction
Player_init(w, data, self, now) ==
    IF ~data.digits
    THEN [w EXCEPT !.raised = TRUE]
    ELSE IF self.id # 0
         THEN [w EXCEPT !.global_cache.players = Cache_set(@, self.id, self, now).self,
                        !.writes = @ + 1]
         ELSE w

\* ServerPlayer.__init__
ServerPlayer_init(w, data, self, now) ==
    LET base == Player_init(w, data, self, now)
    IN  IF base.raised THEN base
        ELSE IF self.id # 0
             THEN [base EXCEPT
                      !.server_cache.players = Cache_set(@, self.id, self, now).self,
                      !.writes = @ + 1]
             ELSE base

\* [ServerPlayer(self, data=p) for p in data]; task is the task that runs
\* the fetch.  A player object is its id: two objects made for one id are
\* not told apart.
RECURSIVE get_players_decode(_, _, _, _)
get_players_decode(w, data, task, now) ==
    IF data = <<>> \/ w.raised THEN w
    ELSE LET self == Val(Head(data).id, 0)
             made == ServerPlayer_init(w, Head(data), self, now)
         IN  get_players_decode(
                 IF made.raised THEN made
                 ELSE [made EXCEPT !.result = Append(@, self)],
                 Tail(data), task, now)

\* [Player(self._client, data=p) for p in data]
RECURSIVE get_bans_decode(_, _, _, _)
get_bans_decode(w, data, task, now) ==
    IF data = <<>> \/ w.raised THEN w
    ELSE LET self == Val(Head(data).id, 0)
             made == Player_init(w, Head(data), self, now)
         IN  get_bans_decode(
                 IF made.raised THEN made
                 ELSE [made EXCEPT !.result = Append(@, self)],
                 Tail(data), task, now)

\* [self._server_cache.bans.set(p.id, p) for p in players]
RECURSIVE get_bans_store(_, _, _)
get_bans_store(w, players, now) ==
    IF players = <<>> THEN w
    ELSE get_bans_store(
             [w EXCEPT !.server_cache.bans =
                           Cache_set(@, Head(players).id, Head(players), now).self,
                       !.writes = @ + 1],
             Tail(players), now)

\* Server._handle and the body of the fetch method, from the response on
Server_fetch_body(w, method, response, task, now) ==
    IF ~response.ok
    THEN [w EXCEPT !.raised = TRUE]
    ELSE IF method = "get_players"
         THEN get_players_decode(w, response.data, task, now)
         ELSE LET decoded == get_bans_decode(w, response.data, task, now)
              IN  IF decoded.raised THEN decoded
                  ELSE get_bans_store(decoded, decoded.result, now)

\* a variant of the test of _ephemeral that still serves a result whose
\* age is exactly ephemeral_ttl
ephemeral_hit_inclusive(w, method, now) ==
    /\ w.server.ephemeral[method] # <<>>
    /\ now - w.server.ephemeral[method][1].timestamp <= w.server.ephemeral_ttl

\* _ephemeral, before func is awaited: whether a stored result is returned
ephemeral_hit(w, method, now) ==
    /\ w.server.ephemeral[method] # <<>>
    /\ now - w.server.ephemeral[method][1].timestamp < w.server.ephemeral_ttl

\* a variant of the store of _ephemeral that keeps a stored result which is
\* still fresh, the result of the call that completed first
ephemeral_store_first(w, method, now) ==
    IF ephemeral_hit(w, method, now)
    THEN [w EXCEPT !.result = w.server.ephemeral[method][1].result,
                   !.writes = @ + 1]
    ELSE [w EXCEPT !.server.ephemeral[method] =
                       <<[result |-> w.result, timestamp |-> now]>>,
                   !.writes = @ + 1]

\* _ephemeral, after func has returned
ephemeral_store(w, method, now) ==
    [w EXCEPT !.server.ephemeral[method] =
                  <<[result |-> w.result, timestamp |-> now]>>,
              !.writes = @ + 1]

\* _refresh_server, after func has returned
refresh_server_store(w, now) ==
    [w EXCEPT !.global_cache.servers = Cache_set(@, ServerId, ServerObject, now).self,
              !.writes = @ + 1]

\* PRC.get_server(server_key, ignore_global_key) for the key of ServerId.
\* A stored handle is read for _ignore_global_key, which no Server object
\* has (AttributeError); without a stored handle Server(...) is called with
\* ignore_global_key=..., which Server.__init__ does not take (TypeError),
\* so servers.set is not reached.  raised is "" for a call that returns.
PRC_get_server(gc, ignore_global_key, now) ==
    LET existing_server == Cache_get(gc.servers, ServerId, now)
        looked == [gc EXCEPT !.servers = existing_server.self]
    IN  IF existing_server.ret # <<>>
        THEN [global_cache |-> looked, ret |-> <<>>, raised |-> "AttributeError"]
        ELSE [global_cache |-> looked, ret |-> <<>>, raised |-> "TypeError"]

\* a variant of the wrappers that refreshes the cached server before the
\* fetch is awaited
Server_fetch_enter_refresh_first(w, method, now) ==
    IF ephemeral_hit(w, method, now)
    THEN refresh_server_store(
             [w EXCEPT !.result = w.server.ephemeral[method][1].result], now)
    ELSE refresh_server_store(w, now)

\* the wrappers from the call to the first await that suspends: on a hit
\* the stored result comes back and _refresh_server stores the server; on a
\* miss nothing is written before the request is awaited
Server_fetch_enter(w, method, now) ==
    IF ephemeral_hit(w, method, now)
    THEN refresh_server_store(
             [w EXCEPT !.result = w.server.ephemeral[method][1].result], now)
    ELSE w

\* the wrappers and the method from the response to the return
Server_fetch_resume(w, method, response, task, now) ==
    LET body == Server_fetch_body(w, method, response, task, now)
    IN  IF body.raised THEN body
        ELSE refresh_server_store(ephemeral_store(body, method, now), now)

(***************************************************************************)
(* LogEntry (models/server/logs.py).  created_at is the timestamp of the   *)
(* response; the entries of a cache are read through their created_at, the *)
(* key field here.  The class defines __eq__ and no __hash__, so Python    *)
(* sets its __hash__ to None: hash(entry) raises TypeError.                *)
(***************************************************************************)
\* the object under construction: one that no cache holds yet
LogEntry(created_at) == Val(0, created_at)

LogEntry_hash == <<>>

\* LogEntry.__init__(data, cache): the loop over cache.items() and its else
\* branch; cache.add(self) starts with `value in self._set`, which hashes
\* the entry and raises before add has changed anything
LogEntry_init(cache, created_at, now) ==
    LET items == KeylessCache_items(cache, now)
        found == \E i \in DOMAIN items.ret : items.ret[i].key = created_at
    IN  IF found
        THEN [cache |-> items.self, raised |-> FALSE]
        ELSE IF LogEntry_hash = <<>>
             THEN [cache |-> items.self, raised |-> TRUE]
             ELSE LET r == KeylessCache_add(items.self, LogEntry(created_at), now)
                  IN  [cache |-> r.self, raised |-> r.raised]

(***************************************************************************)
(* Vehicle (models/server/vehicle.py).  Two vehicles are equal when their  *)
(* full_name and owner are, which the id field carries; the class defines  *)
(* __eq__ and no __hash__, so hash(vehicle) raises TypeError.              *)
(***************************************************************************)
secondary_vehicles == {"4-Wheeler", "Canyon Descender", "Lawn Mower"}

Vehicle(owner, full_name) ==
    [id |-> <<owner, full_name>>, key |-> 0, owner |-> owner, full_name |-> full_name]

Vehicle_is_secondary(self) == self.full_name \in secondary_vehicles

Vehicle_hash == <<>>

\* the loop of Vehicle.__init__ from position n of the items() snapshot on:
\* remove(i) takes i as an index of the cache as it is by then
RECURSIVE Vehicle_replace(_, _, _, _)
Vehicle_replace(cache, snapshot, vehicle, n) ==
    IF n > Len(snapshot) THEN cache
    ELSE LET v == snapshot[n]
             same == /\ v.owner = vehicle.owner
                     /\ Vehicle_is_secondary(v) = Vehicle_is_secondary(vehicle)
         IN  Vehicle_replace(IF same THEN KeylessCache_remove(cache, n - 1).self
                             ELSE cache,
                             snapshot, vehicle, n + 1)

\* Vehicle.__init__(server, data), lines 73-76: the replacement loop over
\* server._server_cache.vehicles.items(), then vehicles.add(self), which
\* hashes the vehicle in `value in self._set` and raises
Vehicle_init(cache, owner, full_name, now) ==
    LET vehicle == Vehicle(owner, full_name)
        items == KeylessCache_items(cache, now)
        replaced == Vehicle_replace(items.self, items.ret, vehicle, 1)
    IN  IF Vehicle_hash = <<>>
        THEN [cache |-> replaced, raised |-> TRUE]
        ELSE LET r == KeylessCache_add(replaced, vehicle, now)
             IN  [cache |-> r.self, raised |-> r.raised]

(***************************************************************************)
(* State.                                                                  *)
(*   now      what time() returns                                          *)
(*   keyed    the Cache object under test                                  *)
(*   keyless  the KeylessCache object under test                           *)
(*   last     the last call made: its name, arguments and result, the keys *)
(*            (values, for the unkeyed cache) it evicted for size and the  *)
(*            ones it removed as expired; for Cache.set, purged holds the  *)
(*            keys its uniqueness pass removed                             *)
(*   recency  history: the keys ever set or read with success, the most    *)
(*            recently touched last                                        *)
(*   global_cache   the client's GlobalCache: servers, join_codes and      *)
(*            players                                                      *)
(*   server_cache   the server's ServerCache: players and bans             *)
(*   server   the Server object: its ephemeral_ttl and, per wrapped fetch  *)
(*            method, the <method>_cache attribute that _ephemeral sets    *)
(*   pc, call  per task, where it stands in the fetch method it runs       *)
(*   writes   history: per task, whether its fetch has written to a cache  *)
(*            or to an attribute of the Server object so far               *)
(*   client   the PRC object: its global key, whether it has _key_requests,*)
(*            the keys found invalid, and where its reset_key call stands  *)
(***************************************************************************)
VARIABLES now, keyed, keyless, last, recency,
          global_cache, server_cache, server, pc, call, writes, client

vars == <<now, keyed, keyless, last, recency,
          global_cache, server_cache, server, pc, call, writes, client>>

\* the state of the client and its server handle
fetchVars == <<global_cache, server_cache, server, pc, call, writes, client>>

\* the state of the two cache objects under test
cacheVars == <<keyed, keyless, last, recency>>

Call(op, key, value, index, ret, evicted, purged) ==
    [op |-> op, key |-> key, value |-> value, index |-> index, ret |-> ret,
     evicted |-> evicted, purged |-> purged]

NoCall == Call("none", <<>>, <<>>, <<>>, <<>>, <<>>, <<>>)

\* the values that are in the deque before and no longer in after
DroppedValues(before, after) ==
    SelectSeq(before, LAMBDA v : v \notin Range(after))

\* the keys that are in the OrderedDict before and no longer in after
Dropped(before, after) ==
    SelectSeq(OrderedKeys(before), LAMBDA k : k \notin KeySet(after))

\* the history after a successful set or get of key
Touch(order, key) == Append(SelectSeq(order, LAMBDA k : k # key), key)

(***************************************************************************)
(* The clock: time() never decreases between two calls.                    *)
(***************************************************************************)
Tick ==
    /\ now < MaxTime
    /\ now' = now + 1
    /\ last' = NoCall

\* the fetch variables where no fetch is modelled
InitNoFetch ==
    /\ global_cache = GlobalCache_init
    /\ server_cache = ServerCache_init
    /\ server = Server_init(5)
    /\ pc = [t \in Tasks |-> "idle"]
    /\ call = [t \in Tasks |-> "get_players"]
    /\ writes = [t \in Tasks |-> FALSE]
    /\ client = PRC_init(<<"key0">>)

(***************************************************************************)
(* Calls on the Cache object.                                              *)
(***************************************************************************)
Set(key, value) ==
    LET stored == Cache_set_store(keyed, key, value, now)
        r == Cache_set(keyed, key, value, now)
    IN  /\ keyed' = r.self
        /\ IF r.raised
           THEN /\ last' = Call("set raised", <<key>>, <<value>>, <<>>, <<>>, <<>>, <<>>)
                /\ recency' = recency
           ELSE /\ last' = Call("set", <<key>>, <<value>>, <<>>, r.ret,
                                Dropped(stored.cache, r.self.cache),
                                Dropped(keyed.cache, stored.cache))
                /\ recency' = Touch(recency, key)
        /\ UNCHANGED <<now, keyless, fetchVars>>

Get(key) ==
    LET r == Cache_get(keyed, key, now)
    IN  /\ keyed' = r.self
        /\ last' = Call("get", <<key>>, <<>>, <<>>, r.ret, <<>>,
                        Dropped(keyed.cache, r.self.cache))
        /\ recency' = IF r.ret # <<>> THEN Touch(recency, key) ELSE recency
        /\ UNCHANGED <<now, keyless, fetchVars>>

Delete(key) ==
    LET r == Cache_delete(keyed, key)
    IN  /\ keyed' = r.self
        /\ last' = Call("delete", <<key>>, <<>>, <<>>, r.ret, <<>>, <<>>)
        /\ UNCHANGED <<now, keyless, recency, fetchVars>>

Clear ==
    LET r == Cache_clear(keyed)
    IN  /\ keyed' = r.self
        /\ last' = Call("clear", <<>>, <<>>, <<>>, r.ret, <<>>, <<>>)
        /\ UNCHANGED <<now, keyless, recency, fetchVars>>

Items ==
    LET r == Cache_items(keyed, now)
    IN  /\ keyed' = r.self
        /\ last' = Call("items", <<>>, <<>>, <<>>, r.ret, <<>>,
                        Dropped(keyed.cache, r.self.cache))
        /\ UNCHANGED <<now, keyless, recency, fetchVars>>

Contains(key) ==
    /\ last' = Call("contains", <<key>>, <<>>, <<>>,
                    <<Cache_contains(keyed, key, now)>>, <<>>, <<>>)
    /\ UNCHANGED <<now, keyed, keyless, recency, fetchVars>>

InitCache ==
    /\ InitNoFetch
    /\ now = 0
    /\ keyless = KeylessCache_init(1, 0, <<>>)
    /\ \E max_size \in 1 .. MaxCap, ttl \in TtlChoices, unique \in BOOLEAN :
           keyed = Cache_init(max_size, ttl, unique)
    /\ last = NoCall
    /\ recency = <<>>

NextCache ==
    \/ Tick /\ UNCHANGED <<keyed, keyless, recency, fetchVars>>
    \/ \E key \in Keys, value \in KValues : Set(key, value)
    \/ \E key \in Keys : Get(key)
    \/ \E key \in Keys : Delete(key)
    \/ Clear
    \/ Items
    \/ \E key \in Keys : Contains(key)

SpecCache == InitCache /\ [][NextCache]_vars


(***************************************************************************)
(* Calls on the KeylessCache object.                                       *)
(***************************************************************************)
\* the indices tried: every index of the longest cache, which are out of
\* range on both sides for a shorter one
Indices == (0 - (MaxCap + 1)) .. MaxCap

Add(value) ==
    LET r == KeylessCache_add(keyless, value, now)
    IN  /\ keyless' = r.self
        /\ last' = Call(IF r.raised THEN "add raised" ELSE "add",
                        <<>>, <<value>>, <<>>, r.ret,
                        DroppedValues(keyless.cache, r.self.cache), <<>>)
        /\ UNCHANGED <<now, keyed, recency, fetchVars>>

GetAt(index) ==
    LET r == KeylessCache_get(keyless, index, now)
    IN  /\ keyless' = r.self
        /\ last' = Call("get", <<>>, <<>>, <<index>>, r.ret, <<>>,
                        DroppedValues(keyless.cache, r.self.cache))
        /\ UNCHANGED <<now, keyed, recency, fetchVars>>

Remove(index) ==
    LET r == KeylessCache_remove(keyless, index)
    IN  /\ keyless' = r.self
        /\ last' = Call("remove", <<>>, <<>>, <<index>>, r.ret, <<>>, <<>>)
        /\ UNCHANGED <<now, keyed, recency, fetchVars>>

ClearAll ==
    LET r == KeylessCache_clear(keyless)
    IN  /\ keyless' = r.self
        /\ last' = Call("clear", <<>>, <<>>, <<>>, r.ret, <<>>, <<>>)
        /\ UNCHANGED <<now, keyed, recency, fetchVars>>

ItemsAll ==
    LET r == KeylessCache_items(keyless, now)
    IN  /\ keyless' = r.self
        /\ last' = Call("items", <<>>, <<>>, <<>>, r.ret, <<>>,
                        DroppedValues(keyless.cache, r.self.cache))
        /\ UNCHANGED <<now, keyed, recency, fetchVars>>

ContainsValue(value) ==
    /\ last' = Call("contains", <<>>, <<value>>, <<>>,
                    <<KeylessCache_contains(keyless, value, now)>>, <<>>, <<>>)
    /\ UNCHANGED <<now, keyed, keyless, recency, fetchVars>>

InitKeyless ==
    /\ InitNoFetch
    /\ now = 0
    /\ keyed = Cache_init(1, 0, TRUE)
    /\ \E max_size \in 1 .. MaxCap, ttl \in TtlChoices,
          sort \in {<<>>, <<FALSE>>, <<TRUE>>} :
           keyless = KeylessCache_init(max_size, ttl, sort)
    /\ last = NoCall
    /\ recency = <<>>

NextKeyless ==
    \/ Tick /\ UNCHANGED <<keyed, keyless, recency, fetchVars>>
    \/ \E value \in Values : Add(value)
    \/ \E index \in Indices : GetAt(index)
    \/ \E index \in Indices : Remove(index)
    \/ ClearAll
    \/ ItemsAll
    \/ \E value \in Values : ContainsValue(value)

SpecKeyless == InitKeyless /\ [][NextKeyless]_vars

(***************************************************************************)
(* Both classes in one specification, for what is said of either of them.  *)
(* One object is called at a time: the calls of a class are taken while    *)
(* the object of the other class is as constructed (the Cache has never    *)
(* stored a key).                                                          *)
(***************************************************************************)
KeyedIdle == keyed = Cache_init(1, 0, TRUE) /\ recency = <<>>

KeylessIdle == keyless = KeylessCache_init(1, 0, <<>>)

\* the smallest and the largest max_size
SizeChoices == {1, MaxCap}

InitCaches ==
    /\ InitNoFetch
    /\ now = 0
    /\ \/ /\ keyless = KeylessCache_init(1, 0, <<>>)
          /\ \E max_size \in SizeChoices, ttl \in TtlChoices, unique \in BOOLEAN :
                 keyed = Cache_init(max_size, ttl, unique)
       \/ /\ keyed = Cache_init(1, 0, TRUE)
          /\ \E max_size \in SizeChoices, ttl \in TtlChoices,
                sort \in {<<>>, <<FALSE>>, <<TRUE>>} :
                 keyless = KeylessCache_init(max_size, ttl, sort)
    /\ last = NoCall
    /\ recency = <<>>

NextCaches ==
    \/ KeylessIdle /\ NextCache
    \/ KeyedIdle /\ NextKeyless

SpecCaches == InitCaches /\ [][NextCaches]_vars

\* the same calls on objects constructed with any max_size: neither
\* __init__ looks at the number it is given
AnySize == {0 - 1, 0, 1}

InitAnySize ==
    /\ InitNoFetch
    /\ now = 0
    /\ \/ /\ keyless = KeylessCache_init(1, 0, <<>>)
          /\ \E max_size \in AnySize, ttl \in TtlChoices, unique \in BOOLEAN :
                 keyed = Cache_init(max_size, ttl, unique)
       \/ /\ keyed = Cache_init(1, 0, TRUE)
          /\ \E max_size \in AnySize, ttl \in TtlChoices,
                sort \in {<<>>, <<FALSE>>, <<TRUE>>} :
                 keyless = KeylessCache_init(max_size, ttl, sort)
    /\ last = NoCall
    /\ recency = <<>>

SpecAnySize == InitAnySize /\ [][NextCaches]_vars

(***************************************************************************)
(* Fetches.  A task calls a fetch method, which runs to the await of the   *)
(* HTTP request (or returns a fresh stored result at once); the request    *)
(* then completes and the task runs to its return or to an exception, or   *)
(* the task is cancelled at the await.  Tasks are cooperative: each of     *)
(* these runs without interruption.                                        *)
(***************************************************************************)
Enter(task, method) ==
    /\ pc[task] = "idle"
    /\ LET w == Server_fetch_enter(World(global_cache, server_cache, server), method, now)
       IN  /\ global_cache' = w.global_cache
           /\ server_cache' = w.server_cache
           /\ server' = w.server
           /\ writes' = [writes EXCEPT ![task] = w.writes > 0]
           /\ pc' = [pc EXCEPT ![task] =
                        IF ephemeral_hit(World(global_cache, server_cache, server),
                                         method, now)
                        THEN "returned" ELSE "awaiting"]
    /\ call' = [call EXCEPT ![task] = method]
    /\ last' = IF ephemeral_hit(World(global_cache, server_cache, server), method, now)
               THEN Call(method, <<>>, <<>>, <<>>,
                         <<server.ephemeral[method][1].result>>, <<>>, <<>>)
               ELSE last
    /\ UNCHANGED <<now, client, keyed, keyless, recency>>

Respond(task, response) ==
    /\ pc[task] = "awaiting"
    /\ LET w == Server_fetch_resume(World(global_cache, server_cache, server),
                                    call[task], response, task, now)
       IN  /\ global_cache' = w.global_cache
           /\ server_cache' = w.server_cache
           /\ server' = w.server
           /\ writes' = [writes EXCEPT ![task] = @ \/ w.writes > 0]
           /\ pc' = [pc EXCEPT ![task] = IF w.raised THEN "raised" ELSE "returned"]
           /\ last' = IF w.raised THEN last
                      ELSE Call(call[task], <<>>, <<>>, <<>>, <<w.result>>, <<>>, <<>>)
    /\ UNCHANGED <<now, call, client, keyed, keyless, recency>>

\* task.cancel(): CancelledError is raised at the await and goes through
\* both wrappers, neither of which catches it
Cancel(task) ==
    /\ pc[task] = "awaiting"
    /\ pc' = [pc EXCEPT ![task] = "cancelled"]
    /\ UNCHANGED <<now, call, writes, global_cache, server_cache, server, client,
                   cacheVars>>

\* the task is done with its fetch and free for another one
Leave(task) ==
    /\ pc[task] \in {"returned", "raised", "cancelled"}
    /\ pc' = [pc EXCEPT ![task] = "idle"]
    /\ writes' = [writes EXCEPT ![task] = FALSE]
    /\ call' = [call EXCEPT ![task] = "get_players"]
    /\ UNCHANGED <<now, global_cache, server_cache, server, client, cacheVars>>

InitServer ==
    /\ now = 0
    /\ keyed = Cache_init(1, 0, TRUE)
    /\ keyless = KeylessCache_init(1, 0, <<>>)
    /\ last = NoCall
    /\ recency = <<>>
    /\ global_cache = GlobalCache_init
    /\ server_cache = ServerCache_init
    /\ \E ephemeral_ttl \in EphemeralTtlChoices : server = Server_init(ephemeral_ttl)
    /\ pc = [t \in Tasks |-> "idle"]
    /\ call = [t \in Tasks |-> "get_players"]
    /\ writes = [t \in Tasks |-> FALSE]
    /\ client = PRC_init(<<"key0">>)

NextServer ==
    \/ Tick /\ UNCHANGED <<keyed, keyless, recency, fetchVars>>
    \/ \E task \in Tasks, method \in Methods : Enter(task, method)
    \/ \E task \in Tasks, response \in Responses : Respond(task, response)
    \/ \E task \in Tasks : Cancel(task)
    \/ \E task \in Tasks : Leave(task)

SpecServer == InitServer /\ [][NextServer]_vars

(***************************************************************************)
(* The client: get_server calls, and the fetches of one task on a handle   *)
(* constructed with Server(client, server_key).                            *)
(***************************************************************************)
GetServer(ignore_global_key) ==
    LET r == PRC_get_server(global_cache, ignore_global_key, now)
    IN  /\ global_cache' = r.global_cache
        /\ last' = Call(IF r.raised = "" THEN "get_server"
                        ELSE "get_server raised", <<ServerId>>, <<>>, <<>>,
                        r.ret, <<>>, <<>>)
        /\ UNCHANGED <<now, keyed, keyless, recency, server_cache, server,
                       pc, call, writes, client>>

NextClient ==
    \/ Tick /\ UNCHANGED <<keyed, keyless, recency, fetchVars>>
    \/ \E ignore_global_key \in BOOLEAN : GetServer(ignore_global_key)
    \/ \E method \in Methods : Enter(1, method)
    \/ \E response \in Responses : Respond(1, response)
    \/ Cancel(1)
    \/ Leave(1)

SpecClient == InitServer /\ [][NextClient]_vars

(***************************************************************************)
(* reset_key, next to the fetches of one task and to join codes stored in  *)
(* the join_codes cache of the GlobalCache the client was given.           *)
(***************************************************************************)
JoinCodes == {"J1", "J2"}

\* join_codes.set(join_code, server id) on the client's GlobalCache; the
\* server id is a str, equal to another one by its characters
StoreJoinCode(join_code) ==
    /\ global_cache' = [global_cache EXCEPT
                            !.join_codes = Cache_set(@, join_code, Val(ServerId, 0), now).self]
    /\ UNCHANGED <<now, server_cache, server, pc, call, writes, client, cacheVars>>

ResetEnter ==
    /\ client.reset = "idle"
    /\ client' = PRC_reset_key_enter(client)
    /\ last' = Call("reset_key", <<>>, <<>>, <<>>, <<>>, <<>>, <<>>)
    /\ UNCHANGED <<now, keyed, keyless, recency, global_cache, server_cache,
                   server, pc, call, writes>>

\* the request completes and reset_key runs to its end; last.key is the
\* new key of the response
ResetRespond(response) ==
    /\ client.reset = "awaiting"
    /\ LET r == PRC_reset_key_resume(global_cache, client, response)
       IN  /\ global_cache' = r.global_cache
           /\ client' = r.client
    /\ last' = Call("reset_key",
                    IF response.ok THEN <<response.new>> ELSE <<>>,
                    <<>>, <<>>, <<>>, <<>>, <<>>)
    /\ UNCHANGED <<now, keyed, keyless, recency, server_cache, server, pc, call,
                   writes>>

ResetLeave ==
    /\ client.reset \in {"returned", "raised"}
    /\ client' = [client EXCEPT !.reset = "idle"]
    /\ last' = NoCall
    /\ UNCHANGED <<now, keyed, keyless, recency, global_cache, server_cache,
                   server, pc, call, writes>>

InitReset ==
    /\ now = 0
    /\ keyed = Cache_init(1, 0, TRUE)
    /\ keyless = KeylessCache_init(1, 0, <<>>)
    /\ last = NoCall
    /\ recency = <<>>
    /\ global_cache = GlobalCache_init
    /\ server_cache = ServerCache_init
    /\ server = Server_init(5)
    /\ pc = [t \in Tasks |-> "idle"]
    /\ call = [t \in Tasks |-> "get_players"]
    /\ writes = [t \in Tasks |-> FALSE]
    /\ \E global_key \in {<<>>, <<"key0">>} : client = PRC_init(global_key)

NextReset ==
    \/ Tick /\ UNCHANGED <<keyed, keyless, recency, fetchVars>>
    \/ \E join_code \in JoinCodes : StoreJoinCode(join_code)
    \/ ResetEnter
    \/ \E response \in ResetResponses : ResetRespond(response)
    \/ ResetLeave
    \/ Enter(1, "get_players")
    \/ \E response \in Responses : Respond(1, response)
    \/ Leave(1)

SpecReset == InitReset /\ [][NextReset]_vars

(***************************************************************************)
(* Properties of Cache, under SpecCache.                                   *)
(***************************************************************************)

\* C2: a Cache constructed with max_size >= 1 never holds more than
\* max_size entries, in particular not after a set.
KeyedSizeBound ==
    /\ Cache_len(keyed) <= keyed.max_size
    /\ DOMAIN keyed.timestamps = KeySet(keyed.cache)

\* a set has just evicted an entry and left the cache full
KeyedSizeBoundWitness ==
    /\ last.op = "set"
    /\ last.evicted # <<>>
    /\ Cache_len(keyed) = keyed.max_size

\* C3: with unique=True no two distinct keys of the cache map to equal
\* values.
KeyedUniqueness ==
    keyed.unique =>
        \A i, j \in DOMAIN keyed.cache :
            i # j => /\ keyed.cache[i].key # keyed.cache[j].key
                     /\ ~ValEq(keyed.cache[i].value, keyed.cache[j].value)

\* a set under a second key of a value equal to, and another object than,
\* the one stored under a first key has removed the first key
KeyedUniquenessWitness ==
    /\ keyed.unique
    /\ last.op = "set"
    /\ last.purged # <<>>
    /\ last.value = <<Val(1, 1)>>
    /\ Cache_len(keyed) = 2

\* the age of key's entry at time t, in the cache object c
Age(c, key, t) == t - c.timestamps[key]

\* C5: with ttl = T > 0, a get of a key whose entry is older than T returns
\* None and removes the entry and its timestamp; a get that returns a value
\* and an items() return only entries that are not older than T.
KeyedExpiry ==
    [][\A T \in keyed.ttl :
          /\ \A key \in KeySet(keyed.cache) :
                 (last'.op = "get" /\ last'.key = <<key>>) =>
                     IF Age(keyed, key, now) > T
                     THEN /\ last'.ret = <<>>
                          /\ key \notin KeySet(keyed'.cache)
                          /\ key \notin DOMAIN keyed'.timestamps
                     ELSE last'.ret # <<>>
          /\ last'.op = "items" =>
                 \A i \in DOMAIN last'.ret :
                     /\ last'.ret[i].key \in KeySet(keyed.cache)
                     /\ Age(keyed, last'.ret[i].key, now) <= T
      ]_vars

\* a get has found its entry expired, and removed it
KeyedExpiryWitness ==
    /\ last.op = "get"
    /\ last.purged # <<>>
    /\ last.purged = last.key
    /\ last.ret = <<>>

\* C7: when a set evicts, the evicted keys are the ones least recently set
\* or read with success among the keys present, and the key just set is the
\* most recent one and stays.
KeyedRecencyEviction ==
    (last.op = "set" /\ last.evicted # <<>>) =>
        LET present == KeySet(keyed.cache) \cup Range(last.evicted)
            touched == SelectSeq(recency, LAMBDA k : k \in present)
        IN  /\ touched = last.evicted \o OrderedKeys(keyed.cache)
            /\ touched[Len(touched)] = last.key[1]
            /\ last.key[1] \in KeySet(keyed.cache)

\* set(A), set(B), get(A), set(C) with max_size = 2: B was evicted, A and C
\* are kept
KeyedRecencyEvictionWitness ==
    /\ keyed.max_size = 2
    /\ last.op = "set"
    /\ last.key = <<"C">>
    /\ last.evicted = <<"B">>
    /\ OrderedKeys(keyed.cache) = <<"A", "C">>
    /\ recency = <<"B", "A", "C">>


\* C12: right after set(key, value) the key is present and maps to value,
\* stands at the most recently used end, carries the current timestamp, and
\* set returned value; with unique=True no other key holds an equal value.
KeyedSetPostcondition ==
    last.op = "set" =>
        LET key == last.key[1]
            value == last.value[1]
            n == Len(keyed.cache)
        IN  /\ n >= 1
            /\ keyed.cache[n] = [key |-> key, value |-> value]
            /\ \A i \in 1 .. (n - 1) : keyed.cache[i].key # key
            /\ key \in DOMAIN keyed.timestamps
            /\ keyed.timestamps[key] = now
            /\ last.ret = <<value>>
            /\ Cache_get(keyed, key, now).ret = <<value>>
            /\ keyed.unique =>
                   \A i \in 1 .. (n - 1) : ~ValEq(keyed.cache[i].value, value)

\* unique=True, max_size = 2: set(A, v), set(B, v') with v' equal to v has
\* removed A and left B alone in the cache
KeyedSetPostconditionWitness ==
    /\ keyed.unique
    /\ keyed.max_size = 2
    /\ last.op = "set"
    /\ last.key = <<"B">>
    /\ last.purged = <<"A">>
    /\ OrderedKeys(keyed.cache) = <<"B">>
    /\ Cache_get(keyed, "A", now).ret = <<>>

\* C23: get(key) of a stored key that is not expired returns its value,
\* moves the key to the most recently used end and stamps it with the current
\* time; the other keys keep their values, their order among themselves and
\* their timestamps.  get of a key that is not stored returns None and
\* changes nothing.
KeyedGetTouch ==
    [][last'.op = "get" =>
           LET key == last'.key[1]
               others == SelectSeq(keyed.cache, LAMBDA e : e.key # key)
           IN  IF key \notin KeySet(keyed.cache)
               THEN /\ last'.ret = <<>>
                    /\ keyed' = keyed
               ELSE (\A ttl \in keyed.ttl : now - keyed.timestamps[key] <= ttl) =>
                        /\ last'.ret = <<keyed.cache[Lookup(keyed.cache, key)].value>>
                        /\ keyed'.cache =
                               Append(others, keyed.cache[Lookup(keyed.cache, key)])
                        /\ DOMAIN keyed'.timestamps = DOMAIN keyed.timestamps
                        /\ \A k \in DOMAIN keyed.timestamps :
                               keyed'.timestamps[k] =
                                   IF k = key THEN now ELSE keyed.timestamps[k]
      ]_vars

\* get(A) has returned A's value; A stands behind B, which was written
\* before the current time, and carries the current time
KeyedGetTouchWitness ==
    /\ last.op = "get"
    /\ last.key = <<"A">>
    /\ last.ret # <<>>
    /\ OrderedKeys(keyed.cache) = <<"B", "A">>
    /\ keyed.timestamps["A"] = now
    /\ keyed.timestamps["B"] < now

\* C24: items() removes the entries that are expired at the time of the
\* call, with their timestamps, and no other; it returns the remaining
\* (key, value) pairs from the least to the most recently used, and leaves
\* their order and their timestamps as they were.
KeyedItems ==
    [][last'.op = "items" =>
           LET expired == {k \in KeySet(keyed.cache) :
                              \E ttl \in keyed.ttl : now - keyed.timestamps[k] > ttl}
               remaining == SelectSeq(keyed.cache, LAMBDA e : e.key \notin expired)
           IN  /\ keyed'.cache = remaining
               /\ last'.ret = remaining
               /\ DOMAIN keyed'.timestamps = (DOMAIN keyed.timestamps) \ expired
               /\ \A k \in DOMAIN keyed'.timestamps :
                      keyed'.timestamps[k] = keyed.timestamps[k]
               /\ Range(last'.purged) = expired
      ]_vars

\* items() has removed the expired A and returned B alone
KeyedItemsWitness ==
    /\ last.op = "items"
    /\ last.purged = <<"A">>
    /\ Len(last.ret) = 1
    /\ last.ret[1].key = "B"
    /\ OrderedKeys(keyed.cache) = <<"B">>
    /\ "A" \notin DOMAIN keyed.timestamps

\* C32: the timestamps of a Cache never decrease from its least recently
\* used end to its most recently used end; a set that evicts takes an entry
\* whose timestamp was the smallest, and when that entry was live no expired
\* entry is left in the cache.
KeyedOrderAgreesWithTimestamps ==
    [][/\ \A i, j \in DOMAIN keyed'.cache :
              i < j => keyed'.timestamps[keyed'.cache[i].key]
                           <= keyed'.timestamps[keyed'.cache[j].key]
       /\ (last'.op = "set" /\ last'.evicted # <<>>) =>
              \A n \in DOMAIN last'.evicted :
                  LET oldest == last'.evicted[n]
                  IN  /\ oldest \in DOMAIN keyed.timestamps
                      /\ \A k \in DOMAIN keyed.timestamps :
                             keyed.timestamps[oldest] <= keyed.timestamps[k]
                      /\ (\A ttl \in keyed.ttl : now - keyed.timestamps[oldest] <= ttl) =>
                             \A k \in DOMAIN keyed'.timestamps : \A ttl \in keyed'.ttl :
                                 now - keyed'.timestamps[k] <= ttl
      ]_vars

\* ttl = 1 and room for two: a set at time 2 has evicted one key, and of the
\* two entries left the first was stamped before the second
KeyedOrderAgreesWithTimestampsWitness ==
    /\ last.op = "set"
    /\ Len(last.evicted) = 1
    /\ keyed.ttl = {1}
    /\ Len(keyed.cache) = 2
    /\ keyed.timestamps[keyed.cache[1].key] < keyed.timestamps[keyed.cache[2].key]
    /\ keyed.timestamps[keyed.cache[2].key] = now

(***************************************************************************)
(* Properties of KeylessCache, under SpecKeyless.                          *)
(***************************************************************************)

\* C1: a KeylessCache constructed with max_size >= 1 holds at most max_size
\* entries after every add.
KeylessSizeBound ==
    last.op = "add" => KeylessCache_len(keyless) <= keyless.max_size

\* C4: the stored sequence of a KeylessCache never holds two entries that
\* compare equal.
KeylessDedup ==
    \A i, j \in DOMAIN keyless.cache :
        i # j => ~ValEq(keyless.cache[i], keyless.cache[j])

\* an add of a value equal to a stored one, and another object than it, has
\* left the stored one in place beside another entry
KeylessDedupWitness ==
    /\ last.op = "add"
    /\ last.value = <<Val(2, 3)>>
    /\ Val(2, 1) \in Range(keyless.cache)
    /\ KeylessCache_len(keyless) = 2

\* the timestamp stored with the entry of c that is the object v
StampOf(c, v) == c.timestamps[CHOOSE i \in DOMAIN c.cache : c.cache[i] = v]

\* C6: with ttl = T > 0, an entry's timestamp is the time of the last add of
\* a value equal to it (an add stamps its entry with the current time, and
\* no call changes the timestamp of another entry it keeps); items() returns
\* no value whose timestamp is more than T ago, and a get at the index of
\* such a value returns None and removes the entry.
KeylessExpiry ==
    [][\A T \in keyless.ttl :
          /\ last'.op = "add" =>
                 \E i \in DOMAIN keyless'.cache :
                     /\ ValEq(keyless'.cache[i], last'.value[1])
                     /\ keyless'.timestamps[i] = now
          /\ \A i \in DOMAIN keyless'.cache :
                 (last'.op = "add" => ~ValEq(keyless'.cache[i], last'.value[1])) =>
                     /\ keyless'.cache[i] \in Range(keyless.cache)
                     /\ keyless'.timestamps[i] = StampOf(keyless, keyless'.cache[i])
          /\ last'.op = "items" =>
                 \A i \in DOMAIN last'.ret :
                     /\ last'.ret[i] \in Range(keyless.cache)
                     /\ now - StampOf(keyless, last'.ret[i]) <= T
          /\ \A index \in (0 - Len(keyless.cache)) .. (Len(keyless.cache) - 1) :
                 (last'.op = "get" /\ last'.index = <<index>>) =>
                     LET value == keyless.cache[Pos(keyless.cache, index)]
                     IN  IF now - StampOf(keyless, value) > T
                         THEN /\ last'.ret = <<>>
                              /\ value \notin Range(keyless'.cache)
                              /\ Len(keyless'.cache) = Len(keyless.cache) - 1
                              /\ Len(keyless'.timestamps) = Len(keyless.timestamps) - 1
                         ELSE last'.ret = <<value>>
      ]_vars

\* items() has removed an expired entry and returned a live one
KeylessExpiryWitness ==
    /\ last.op = "items"
    /\ last.purged # <<>>
    /\ last.ret # <<>>

\* C8: with sort=(key_func, descending) the stored sequence is ordered by
\* the key, non-decreasing when ascending and non-increasing when
\* descending.
KeylessSorted ==
    keyless.sort # <<>> =>
        \A i, j \in DOMAIN keyless.cache :
            i < j => IF keyless.sort[1]
                     THEN keyless.cache[i].key >= keyless.cache[j].key
                     ELSE keyless.cache[i].key <= keyless.cache[j].key

\* ascending: the value with key 1, added after the one with key 5, stands
\* in front of it
KeylessSortedWitness ==
    /\ keyless.sort = <<FALSE>>
    /\ last.op = "add"
    /\ last.value = <<Val(2, 1)>>
    /\ keyless.cache = <<Val(2, 1), Val(1, 5)>>
    /\ keyless.timestamps = <<1, 0>>


\* C13: add(v) while a value equal to v is stored keeps the length, evicts
\* nothing, keeps the stored objects, stamps the equal entry with the current
\* time and leaves every other entry's timestamp as it was; without a sort
\* no entry changes its position.
KeylessReAddInPlace ==
    [][(/\ last'.op = "add"
        /\ \E i \in DOMAIN keyless.cache : ValEq(keyless.cache[i], last'.value[1])) =>
           /\ Len(keyless'.cache) = Len(keyless.cache)
           /\ Len(keyless'.timestamps) = Len(keyless.timestamps)
           /\ last'.evicted = <<>>
           /\ Range(keyless'.cache) = Range(keyless.cache)
           /\ keyless'.set = keyless.set
           /\ \A i \in DOMAIN keyless'.cache :
                  keyless'.timestamps[i] =
                      IF ValEq(keyless'.cache[i], last'.value[1])
                      THEN now
                      ELSE StampOf(keyless, keyless'.cache[i])
           /\ keyless.sort = <<>> => keyless'.cache = keyless.cache
      ]_vars

\* without a sort, the first of two entries was added again later than the
\* second one was added: it kept its place and carries the later time
KeylessReAddInPlaceWitness ==
    /\ keyless.sort = <<>>
    /\ last.op = "add"
    /\ Len(keyless.cache) = 2
    /\ ValEq(keyless.cache[1], last.value[1])
    /\ keyless.timestamps[1] = now
    /\ keyless.timestamps[2] < now

\* C16: with n entries, get and remove at an index >= n or < -n return
\* None and leave the cache as it was; at an index -n <= index < 0 they
\* address the entry counted from the end (-1 the last), at 0 <= index < n
\* the entry counted from the front.
KeylessIndexTolerance ==
    [][(last'.op \in {"get", "remove"} /\ last'.index # <<>>) =>
           LET n == Len(keyless.cache)
               index == last'.index[1]
               at == IF index < 0 THEN n + index + 1 ELSE index + 1
           IN  /\ last'.op = "remove" => last'.ret = <<>>
               /\ (index >= n \/ index < -n) =>
                      /\ keyless' = keyless
                      /\ last'.ret = <<>>
               /\ (-n <= index /\ index < n /\ last'.op = "remove") =>
                      /\ keyless'.cache = RemoveAt(keyless.cache, at)
                      /\ keyless'.timestamps = RemoveAt(keyless.timestamps, at)
               /\ (-n <= index /\ index < n /\ last'.op = "get") =>
                      \/ /\ last'.ret = <<keyless.cache[at]>>
                         /\ keyless' = keyless
                      \/ /\ last'.ret = <<>>
                         /\ last'.purged = <<keyless.cache[at]>>
                         /\ keyless'.cache = RemoveAt(keyless.cache, at)
      ]_vars

\* get(2) on a cache of two entries that never expire: None, both entries
\* still there
KeylessIndexToleranceWitness ==
    /\ last.op = "get"
    /\ last.index = <<2>>
    /\ last.ret = <<>>
    /\ keyless.ttl = {}
    /\ Len(keyless.cache) = 2

\* C25: get(index) at an entry that is not expired returns the value at
\* that position and changes nothing, no timestamp either; at an expired
\* entry it returns None and removes that entry, its timestamp and its
\* membership record, and nothing else.
KeylessGetNoTouch ==
    [][(/\ last'.op = "get"
        /\ -Len(keyless.cache) <= last'.index[1]
        /\ last'.index[1] < Len(keyless.cache)) =>
           LET at == Pos(keyless.cache, last'.index[1])
               value == keyless.cache[at]
           IN  IF \A ttl \in keyless.ttl : now - keyless.timestamps[at] <= ttl
               THEN /\ last'.ret = <<value>>
                    /\ keyless' = keyless
               ELSE /\ last'.ret = <<>>
                    /\ keyless'.cache = RemoveAt(keyless.cache, at)
                    /\ keyless'.timestamps = RemoveAt(keyless.timestamps, at)
                    /\ keyless'.set = {x \in keyless.set : ~ValEq(x, value)}
                    /\ value \notin keyless'.set
      ]_vars

\* get(0) has returned the first of two entries, whose timestamp is still
\* the earlier time at which it was added
KeylessGetNoTouchWitness ==
    /\ last.op = "get"
    /\ last.index = <<0>>
    /\ Len(keyless.cache) = 2
    /\ last.ret = <<keyless.cache[1]>>
    /\ keyless.timestamps[1] < now

\* C26: the entries an add evicts are the first ones of the sequence as it
\* stood before the add (in insertion order, or in sorted order with a sort),
\* whatever their timestamps, and the value added is in the cache after the
\* add.
KeylessEvictsFront ==
    [][(last'.op = "add" /\ last'.evicted # <<>>) =>
           /\ Len(last'.evicted) <= Len(keyless.cache)
           /\ last'.evicted = SubSeq(keyless.cache, 1, Len(last'.evicted))
           /\ \A v \in Range(last'.evicted) : ~ValEq(v, last'.value[1])
           /\ last'.value[1] \in Range(keyless'.cache)
      ]_vars

\* an add into a sorted cache has evicted an entry, and an entry that was
\* stamped before the current time is still there
KeylessEvictsFrontWitness ==
    /\ keyless.sort # <<>>
    /\ last.op = "add"
    /\ last.evicted # <<>>
    /\ last.value[1] \in Range(keyless.cache)
    /\ \E i \in DOMAIN keyless.cache : keyless.timestamps[i] < now

\* C27: after an add into a cache with a sort, ascending or descending, two
\* entries with equal sort keys stand in the order they had before (the
\* value just appended behind the others), and every value carries its own
\* timestamp: the current time for the value added, the one it had for any
\* other.
KeylessStableSort ==
    [][(last'.op = "add" /\ keyless.sort # <<>>) =>
           LET PrePos(v) ==
                   IF v \in Range(keyless.cache)
                   THEN CHOOSE i \in DOMAIN keyless.cache : keyless.cache[i] = v
                   ELSE Len(keyless.cache) + 1
           IN  /\ \A i, j \in DOMAIN keyless'.cache :
                      (i < j /\ keyless'.cache[i].key = keyless'.cache[j].key) =>
                          PrePos(keyless'.cache[i]) < PrePos(keyless'.cache[j])
               /\ Len(keyless'.timestamps) = Len(keyless'.cache)
               /\ \A i \in DOMAIN keyless'.cache :
                      keyless'.timestamps[i] =
                          IF ValEq(keyless'.cache[i], last'.value[1])
                          THEN now
                          ELSE StampOf(keyless, keyless'.cache[i])
      ]_vars

\* a descending cache holds two entries with the same sort key, the one
\* added first in front, and the second was added at a later time
KeylessStableSortWitness ==
    /\ keyless.sort = <<TRUE>>
    /\ last.op = "add"
    /\ Len(keyless.cache) >= 2
    /\ keyless.cache[1].key = keyless.cache[2].key
    /\ ValEq(keyless.cache[2], last.value[1])
    /\ keyless.timestamps[1] < keyless.timestamps[2]

\* C28: items() removes every entry that is expired at the time of the
\* call, at whatever positions and however many, and no other entry; it
\* returns the remaining values in the order they had, and none of the
\* entries left is expired at that time.
KeylessItemsPurge ==
    [][last'.op = "items" =>
           LET live == {i \in DOMAIN keyless.cache :
                           \A ttl \in keyless.ttl : now - keyless.timestamps[i] <= ttl}
               Keep(s) == LET F[n \in 0 .. Len(s)] ==
                                  IF n = 0 THEN <<>>
                                  ELSE IF n \in live THEN Append(F[n - 1], s[n])
                                       ELSE F[n - 1]
                          IN  F[Len(s)]
           IN  /\ keyless'.cache = Keep(keyless.cache)
               /\ keyless'.timestamps = Keep(keyless.timestamps)
               /\ keyless'.set = Range(keyless'.cache)
               /\ last'.ret = keyless'.cache
               /\ \A i \in DOMAIN keyless'.cache :
                      \A ttl \in keyless'.ttl : now - keyless'.timestamps[i] <= ttl
      ]_vars

\* items() has removed two expired entries and returned the one that was
\* not expired
KeylessItemsPurgeWitness ==
    /\ last.op = "items"
    /\ Len(last.purged) = 2
    /\ Len(last.ret) = 1
    /\ last.ret = keyless.cache

\* C35: after every call the value sequence and the timestamp sequence of
\* a KeylessCache have the same length, _set holds exactly the values of
\* the sequence, and the timestamp at a position is the one of the value at
\* that position: the current time for the value an add has just added or
\* found, and for any other value the timestamp it was paired with before
\* the call.
KeylessBookkeeping ==
    [][/\ Len(keyless'.cache) = Len(keyless'.timestamps)
       /\ keyless'.set = Range(keyless'.cache)
       /\ \A i \in DOMAIN keyless'.cache :
              IF last'.op = "add" /\ ValEq(keyless'.cache[i], last'.value[1])
              THEN keyless'.timestamps[i] = now
              ELSE \E j \in DOMAIN keyless.cache :
                       /\ keyless.cache[j] = keyless'.cache[i]
                       /\ keyless.timestamps[j] = keyless'.timestamps[i]
      ]_vars

\* a sorted cache after an add that found its value stored, behind another
\* value: the value found carries the current time, the value in front of
\* it an earlier one, and _set holds the two
KeylessBookkeepingWitness ==
    /\ keyless.sort # <<>>
    /\ last.op = "add"
    /\ last.evicted = <<>>
    /\ Len(keyless.cache) = 2
    /\ Len(keyless.timestamps) = 2
    /\ ValEq(keyless.cache[2], last.value[1])
    /\ keyless.cache[2] # last.value[1]
    /\ keyless.timestamps[2] = now
    /\ keyless.timestamps[1] < now
    /\ Cardinality(keyless.set) = 2

\* C33: in a cache sorted descending, as the log caches of a server are, an
\* add that evicts takes the entry at the front, whose sort key is the
\* greatest of the entries stored before the add.
SortedDescendingEvictsGreatest ==
    [][(keyless.sort = <<TRUE>> /\ last'.op = "add" /\ last'.evicted # <<>>) =>
           /\ Len(last'.evicted) = 1
           /\ last'.evicted[1] = keyless.cache[1]
           /\ \A i \in DOMAIN keyless.cache :
                  keyless.cache[i].key <= last'.evicted[1].key
      ]_vars

\* sorted descending: an add has evicted an entry whose sort key is greater
\* than the one of an entry that stays, which is not the value added and
\* was stamped before the current time
SortedDescendingEvictsGreatestWitness ==
    /\ keyless.sort = <<TRUE>>
    /\ last.op = "add"
    /\ Len(last.evicted) = 1
    /\ \E i \in DOMAIN keyless.cache :
           /\ keyless.cache[i].key < last.evicted[1].key
           /\ keyless.cache[i] # last.value[1]
           /\ keyless.timestamps[i] < now

(***************************************************************************)
(* Properties of the fetch methods, under SpecServer.                      *)
(***************************************************************************)

\* C10: a fetch that is cancelled while its HTTP request is awaited has
\* written to no server cache, no global cache and no ephemeral result
\* attribute; and the cancellation itself changes none of them.
CancelledFetchWroteNothing ==
    [][\A task \in Tasks :
          /\ pc'[task] = "cancelled" => ~writes'[task]
          /\ (pc[task] = "awaiting" /\ pc'[task] = "cancelled") =>
                 /\ global_cache' = global_cache
                 /\ server_cache' = server_cache
                 /\ server' = server
      ]_vars

\* one fetch was cancelled at its await while another one, of the same
\* method, completed and filled the caches
CancelledFetchWroteNothingWitness ==
    \E task, other \in Tasks :
        /\ pc[task] = "cancelled"
        /\ pc[other] = "returned"
        /\ call[task] = call[other]
        /\ writes[other]
        /\ Cache_len(global_cache.players) = 2
        /\ server.ephemeral[call[task]] # <<>>

\* C11: a fetch that fails, on an error code or on an element of the
\* response that cannot be decoded, has written to no cache.
FailedFetchWroteNothing ==
    \A task \in Tasks : pc[task] = "raised" => ~writes[task]


\* C22: a call of a wrapped fetch method made less than ephemeral_ttl after
\* the stored result of that method was stored returns the stored result at
\* once, with no request; any other call issues a request, and the stored
\* result and its timestamp are replaced only when that call returns, by its
\* result and the time of its return.
EphemeralResultServed ==
    [][\A task \in Tasks :
          /\ (pc[task] = "idle" /\ pc'[task] # "idle") =>
                 LET stored == server.ephemeral[call'[task]]
                 IN  /\ server'.ephemeral = server.ephemeral
                     /\ IF stored # <<>> /\ now - stored[1].timestamp < server.ephemeral_ttl
                        THEN /\ pc'[task] = "returned"
                             /\ last'.op = call'[task]
                             /\ last'.ret = <<stored[1].result>>
                        ELSE pc'[task] = "awaiting"
          /\ (pc[task] = "awaiting" /\ pc'[task] # "awaiting") =>
                 IF pc'[task] = "returned"
                 THEN /\ last'.op = call[task]
                      /\ server'.ephemeral =
                             [server.ephemeral EXCEPT ![call[task]] =
                                 <<[result |-> last'.ret[1], timestamp |-> now]>>]
                 ELSE server'.ephemeral = server.ephemeral
      ]_vars

\* a call has just returned the players stored at an earlier time
EphemeralResultServedWitness ==
    \E task \in Tasks :
        /\ pc[task] = "returned"
        /\ call[task] = "get_players"
        /\ last.op = "get_players"
        /\ server.ephemeral["get_players"] # <<>>
        /\ server.ephemeral["get_players"][1].timestamp < now
        /\ last.ret = <<server.ephemeral["get_players"][1].result>>
        /\ last.ret[1] # <<>>

\* C34: a call of a wrapped fetch method that finds no fresh stored result
\* while another call of the same method awaits its request awaits a request
\* of its own and writes nothing.  When a call returns from its request,
\* whether or not a call that completed in the meantime has stored a result
\* that is still fresh, the stored result of the method becomes the result
\* of the call that returns, stamped with the time of the return; every
\* object of that result is in the caches the method writes, stamped with
\* that time; and a call that still awaits its request goes on awaiting it.
NoCoalescing ==
    [][\A task \in Tasks :
          /\ (/\ pc[task] = "idle"
              /\ pc'[task] # "idle"
              /\ \E other \in Tasks \ {task} :
                     pc[other] = "awaiting" /\ call[other] = call'[task]
              /\ \A stored \in Range(server.ephemeral[call'[task]]) :
                     now - stored.timestamp >= server.ephemeral_ttl) =>
                 /\ pc'[task] = "awaiting"
                 /\ \A other \in Tasks \ {task} : pc'[other] = pc[other]
                 /\ <<global_cache', server_cache', server'>>
                        = <<global_cache, server_cache, server>>
          /\ (pc[task] = "awaiting" /\ pc'[task] = "returned") =>
                 LET Holds(cache, p) ==
                         /\ \E e \in Range(cache.cache) : e.key = p.id /\ e.value = p
                         /\ cache.timestamps[p.id] = now
                 IN  /\ \A other \in Tasks \ {task} : pc'[other] = pc[other]
                     /\ writes'[task]
                     /\ last'.op = call[task]
                     /\ server'.ephemeral[call[task]] =
                            <<[result |-> last'.ret[1], timestamp |-> now]>>
                     /\ \A p \in Range(last'.ret[1]) :
                            /\ Holds(global_cache'.players, p)
                            /\ IF call[task] = "get_players"
                               THEN Holds(server_cache'.players, p)
                               ELSE Holds(server_cache'.bans, p)
      ]_vars

\* two calls of get_players were in flight together.  The one that
\* completed first returned players 1 and 2 at an earlier time, and its
\* result would still be fresh; the one that completed second has returned
\* player 1 alone, and that is the stored result, stamped with the current
\* time.  Player 2 is still in the cache with the stamp of the first.
NoCoalescingWitness ==
    \E task, other \in Tasks :
        /\ task # other
        /\ pc[task] = "returned"
        /\ pc[other] = "returned"
        /\ call[task] = "get_players"
        /\ call[other] = "get_players"
        /\ writes[task]
        /\ writes[other]
        /\ last.op = "get_players"
        /\ Len(last.ret[1]) = 1
        /\ server.ephemeral["get_players"] = <<[result |-> last.ret[1], timestamp |-> now]>>
        /\ Cache_len(server_cache.players) = 2
        /\ \E k \in DOMAIN server_cache.players.timestamps :
               /\ server_cache.players.timestamps[k] < now
               /\ now - server_cache.players.timestamps[k] < server.ephemeral_ttl

(***************************************************************************)
(* Properties of both cache classes, under SpecCaches.                     *)
(***************************************************************************)
\* C14: after clear() the cache has length 0, get and the membership test
\* find no key and no value (so none of those stored before), no timestamp
\* and no membership record is left, and a second clear() changes nothing.
\* The object that is not being called is empty as well, so the state after
\* clear() is the same for both classes.
ClearEmpties ==
    last.op = "clear" =>
        /\ Cache_len(keyed) = 0
        /\ keyed.timestamps = EmptyDict
        /\ \A key \in Keys :
               /\ Cache_get(keyed, key, now).ret = <<>>
               /\ ~Cache_contains(keyed, key, now)
        /\ Cache_clear(keyed).self = keyed
        /\ KeylessCache_len(keyless) = 0
        /\ keyless.timestamps = <<>>
        /\ keyless.set = {}
        /\ \A value \in Values : ~KeylessCache_contains(keyless, value, now)
        /\ \A index \in Indices : KeylessCache_get(keyless, index, now).ret = <<>>
        /\ KeylessCache_clear(keyless).self = keyless

\* a Cache of max_size 2 that had keys set has just been cleared
ClearEmptiesWitness ==
    /\ last.op = "clear"
    /\ keyed.max_size = 2
    /\ recency # <<>>
    /\ keyed.cache = <<>>
    /\ keyed.timestamps = EmptyDict

\* C15: the membership test answers True exactly when the key (or a value
\* equal to the one asked for) is stored and its age does not exceed the TTL,
\* so False for an expired entry, and it changes nothing in either cache: the
\* entries, their order and their timestamps stay, an expired entry included.
ContainsReadsOnly ==
    [][last'.op = "contains" =>
           /\ keyed' = keyed
           /\ keyless' = keyless
           /\ last'.key # <<>> =>
                  last'.ret =
                      << \E i \in DOMAIN keyed.cache :
                             /\ keyed.cache[i].key = last'.key[1]
                             /\ \A ttl \in keyed.ttl :
                                    now - keyed.timestamps[last'.key[1]] <= ttl >>
           /\ last'.value # <<>> =>
                  last'.ret =
                      << \E i \in DOMAIN keyless.cache :
                             /\ ValEq(keyless.cache[i], last'.value[1])
                             /\ \A ttl \in keyless.ttl :
                                    now - keyless.timestamps[i] <= ttl >>
      ]_vars

\* the membership test has answered False for key A, which is expired and
\* still in the cache
ContainsReadsOnlyWitness ==
    /\ last.op = "contains"
    /\ last.key = <<"A">>
    /\ last.ret = <<FALSE>>
    /\ "A" \in KeySet(keyed.cache)
    /\ "A" \in DOMAIN keyed.timestamps
    /\ Cache_is_expired(keyed, "A", now)

\* C19: in a cache constructed with ttl = 0 (or without a ttl) no entry is
\* taken for expired, whatever its age: get returns the stored entry, the
\* membership test finds it, get and items remove nothing, and an entry
\* leaves the cache only in set or add (eviction, uniqueness), delete or
\* remove, or clear.
ZeroTtlNeverExpires ==
    [][/\ (\A ttl \in keyed.ttl : ttl = 0) =>
              /\ KeySet(keyed.cache) \ KeySet(keyed'.cache) # {} =>
                     last'.op \in {"set", "delete", "clear"}
              /\ (last'.op \in {"get", "contains"} /\ last'.key # <<>>
                    /\ last'.key[1] \in KeySet(keyed.cache)) =>
                     last'.ret = IF last'.op = "contains" THEN <<TRUE>>
                                 ELSE <<keyed.cache[Lookup(keyed.cache, last'.key[1])].value>>
       /\ (\A ttl \in keyless.ttl : ttl = 0) =>
              /\ Range(keyless.cache) \ Range(keyless'.cache) # {} =>
                     last'.op \in {"add", "remove", "clear"}
              /\ (last'.op = "contains" /\ last'.value # <<>>
                    /\ \E v \in Range(keyless.cache) : ValEq(v, last'.value[1])) =>
                     last'.ret = <<TRUE>>
              /\ (last'.op = "get" /\ last'.index # <<>>
                    /\ -Len(keyless.cache) <= last'.index[1]
                    /\ last'.index[1] < Len(keyless.cache)) =>
                     last'.ret = <<keyless.cache[Pos(keyless.cache, last'.index[1])]>>
      ]_vars

\* a Cache without expiry: the membership test has found key A two ticks
\* after A was last written, which is beyond every TTL tried
ZeroTtlNeverExpiresWitness ==
    /\ keyed.ttl = {}
    /\ last.op = "contains"
    /\ last.key = <<"A">>
    /\ last.ret = <<TRUE>>
    /\ "A" \in DOMAIN keyed.timestamps
    /\ now - keyed.timestamps["A"] >= 2

\* C29: with ttl = T > 0 an entry whose age is at most T, exactly T
\* included, is live: get returns it, items() includes it and the membership
\* test finds it; an entry whose age is more than T is expired for all three.
ExpiryBoundaryStrict ==
    /\ \A T \in keyed.ttl : \A i \in DOMAIN keyed.cache :
           LET e == keyed.cache[i]
               live == now - keyed.timestamps[e.key] <= T
           IN  /\ Cache_get(keyed, e.key, now).ret = IF live THEN <<e.value>> ELSE <<>>
               /\ Cache_contains(keyed, e.key, now) = live
               /\ (e \in Range(Cache_items(keyed, now).ret)) = live
    /\ \A T \in keyless.ttl : \A i \in DOMAIN keyless.cache :
           LET v == keyless.cache[i]
               live == now - keyless.timestamps[i] <= T
           IN  /\ KeylessCache_get(keyless, i - 1, now).ret = IF live THEN <<v>> ELSE <<>>
               /\ KeylessCache_contains(keyless, v, now) = live
               /\ (v \in Range(KeylessCache_items(keyless, now).ret)) = live

\* ttl = 1: the membership test has found key A, whose age is exactly 1
ExpiryBoundaryStrictWitness ==
    /\ keyed.ttl = {1}
    /\ last.op = "contains"
    /\ last.key = <<"A">>
    /\ last.ret = <<TRUE>>
    /\ "A" \in DOMAIN keyed.timestamps
    /\ now - keyed.timestamps["A"] = 1

(***************************************************************************)
(* Properties of both cache classes constructed with any max_size, under   *)
(* SpecAnySize.                                                            *)
(***************************************************************************)
\* C17: set, add, delete, remove and clear return without raising in every
\* state, and delete(key) of a key that is not stored leaves the cache as it
\* was.
MutationsNeverFail ==
    [][/\ last'.op \notin {"set raised", "add raised"}
       /\ (last'.op = "delete" /\ last'.key[1] \notin KeySet(keyed.cache)) =>
              keyed' = keyed
      ]_vars

\* C18: no Cache and no KeylessCache with a negative max_size exists:
\* construction has rejected the number.
NoNegativeMaxSize ==
    /\ keyed.max_size >= 0
    /\ keyless.max_size >= 0

(***************************************************************************)
(* Properties of the client, under SpecClient.                             *)
(***************************************************************************)
\* C20: a get_server call returns a handle, and the handle it returns for a
\* server id is the one held in the servers cache, which is the one that
\* earlier calls for that id returned or refreshed.
GetServerReturnsCachedHandle ==
    /\ last.op # "get_server raised"
    /\ last.op = "get_server" =>
           /\ last.ret # <<>>
           /\ Cache_get(global_cache.servers, ServerId, now).ret = last.ret

(***************************************************************************)
(* An unkeyed cache whose callers also construct log entries with it.      *)
(***************************************************************************)
CreatedAt == {1, 3, 4}

NewLogEntry(created_at) ==
    LET r == LogEntry_init(keyless, created_at, now)
    IN  /\ keyless' = r.cache
        /\ last' = Call(IF r.raised THEN "LogEntry raised" ELSE "LogEntry",
                        <<>>, <<LogEntry(created_at)>>, <<>>, <<>>, <<>>,
                        DroppedValues(keyless.cache, r.cache.cache))
        /\ UNCHANGED <<now, keyed, recency, fetchVars>>

NextLogs ==
    \/ NextKeyless
    \/ \E created_at \in CreatedAt : NewLogEntry(created_at)

SpecLogs == InitKeyless /\ [][NextLogs]_vars

(***************************************************************************)
(* The vehicles cache of a server: vehicles are constructed for it, and    *)
(* its callers add, remove and list objects that have an owner and a full  *)
(* name.                                                                   *)
(***************************************************************************)
Owners == {"o1", "o2"}

FullNames == {"Lawn Mower", "4-Wheeler", "Fire Engine"}

VehicleObjects == {Vehicle(owner, full_name) : owner \in Owners, full_name \in FullNames}

NewVehicle(owner, full_name) ==
    LET r == Vehicle_init(keyless, owner, full_name, now)
    IN  /\ keyless' = r.cache
        /\ last' = Call(IF r.raised THEN "Vehicle raised" ELSE "Vehicle",
                        <<>>, <<Vehicle(owner, full_name)>>, <<>>, <<>>, <<>>,
                        DroppedValues(keyless.cache, r.cache.cache))
        /\ UNCHANGED <<now, keyed, recency, fetchVars>>

InitVehicles ==
    /\ InitNoFetch
    /\ now = 0
    /\ keyed = Cache_init(1, 0, TRUE)
    /\ \E max_size \in 1 .. MaxCap, ttl \in TtlChoices :
           keyless = KeylessCache_init(max_size, ttl, <<>>)
    /\ last = NoCall
    /\ recency = <<>>

NextVehicles ==
    \/ Tick /\ UNCHANGED <<keyed, keyless, recency, fetchVars>>
    \/ \E owner \in Owners, full_name \in FullNames : NewVehicle(owner, full_name)
    \/ \E value \in VehicleObjects : Add(value)
    \/ ItemsAll

SpecVehicles == InitVehicles /\ [][NextVehicles]_vars

(***************************************************************************)
(* Properties of reset_key, under SpecReset.                               *)
(***************************************************************************)
\* C21: when reset_key returns, the servers, join_codes and players caches
\* of the client's GlobalCache are all empty and the global key is the new
\* key of the response, both in the one step that follows the response.
ResetKeyResetsAllCache ==
    [][(client.reset = "awaiting" /\ client'.reset = "returned") =>
           /\ Cache_len(global_cache'.servers) = 0
           /\ Cache_len(global_cache'.join_codes) = 0
           /\ Cache_len(global_cache'.players) = 0
           /\ client'.global_key = last'.key
           /\ client'.global_key # <<>>
      ]_vars

(***************************************************************************)
(* Properties of LogEntry construction, under SpecLogs.                    *)
(***************************************************************************)
\* C30: constructing a LogEntry with a cache adds the entry to the cache if
\* and only if no live entry of the cache has its created_at; when one has,
\* the entries that stay keep their values, positions and timestamps.
LogEntryDedup ==
    [][last'.op \in {"LogEntry", "LogEntry raised"} =>
           LET entry == last'.value[1]
               live == {i \in DOMAIN keyless.cache :
                           \A ttl \in keyless.ttl : now - keyless.timestamps[i] <= ttl}
               cached == \E i \in live : keyless.cache[i].key = entry.key
               added == \E i \in DOMAIN keyless'.cache :
                            /\ keyless'.cache[i] = entry
                            /\ keyless'.timestamps[i] = now
           IN  /\ added <=> ~cached
               /\ cached => \A i \in live :
                                \E j \in DOMAIN keyless'.cache :
                                    /\ keyless'.cache[j] = keyless.cache[i]
                                    /\ keyless'.timestamps[j] = keyless.timestamps[i]
      ]_vars

(***************************************************************************)
(* Properties of Vehicle construction, under SpecVehicles.                 *)
(***************************************************************************)
\* C31: after a Vehicle is constructed the vehicles cache holds it, holds no
\* other live vehicle of its owner and slot, and still holds every vehicle
\* of another owner or slot that was live before.
OneVehiclePerOwnerSlot ==
    [][last'.op \in {"Vehicle", "Vehicle raised"} =>
           LET vehicle == last'.value[1]
               Same(v) == /\ v.owner = vehicle.owner
                          /\ Vehicle_is_secondary(v) = Vehicle_is_secondary(vehicle)
               Live(c, i) == \A ttl \in c.ttl : now - c.timestamps[i] <= ttl
           IN  /\ \E i \in DOMAIN keyless'.cache :
                      /\ keyless'.cache[i] = vehicle
                      /\ keyless'.timestamps[i] = now
               /\ \A i \in DOMAIN keyless'.cache :
                      (Live(keyless', i) /\ Same(keyless'.cache[i]))
                          => keyless'.cache[i] = vehicle
               /\ \A i \in DOMAIN keyless.cache :
                      (Live(keyless, i) /\ ~Same(keyless.cache[i]))
                          => keyless.cache[i] \in Range(keyless'.cache)
      ]_vars

====
